---- MODULE Spec2Model ----
(***************************************************************************)
(* A model of computeSales.py: main() loads a price catalogue and one or   *)
(* more sales records (JSON files named on the command line), computes the *)
(* total cost of each sales record with calculate_total_cost and writes a  *)
(* report section per file to the console and to SalesResults.txt.         *)
(*                                                                         *)
(* Encoding of the data.                                                   *)
(*  - A JSON field that the code reads as a number is a record             *)
(*    [t |-> "number" | "string" | "missing", v |-> Int]: "missing" is an  *)
(*    absent key (dict.get returns its default), "string" stands for any   *)
(*    value Python cannot compare with 0 or pass to abs().                 *)
(*  - Money is counted in eighths of a dollar (price 10 is $1.25): eighths *)
(*    are exact in binary floating point, so unit_price * quantity and the *)
(*    running sum are exact, and the ".2f" format is a real rounding.      *)
(*  - NoneName is Python's None as sale.get('Product') returns it for an   *)
(*    entry without the key; no product or title is spelled that way.      *)
(*  - A printed line is [kind, name, num, rows]; console and result_file   *)
(*    are the sequences of lines printed so far.                           *)
(***************************************************************************)
EXTENDS Integers, Sequences, FiniteSets

VARIABLES argv, pc, price_catalogue, sales_record, path_idx, total_cost,
          table, sale_idx, console, result_file, file_state, exception

vars == <<argv, pc, price_catalogue, sales_record, path_idx, total_cost,
          table, sale_idx, console, result_file, file_state, exception>>

(************************** bounds of the model ****************************)
MaxCat == 2
MaxSales == 2
MaxFiles == 2

(***************************** input values ********************************)
NoneName == "None"

Num(n) == [t |-> "number", v |-> n]
Missing == [t |-> "missing", v |-> 0]
NotANumber == [t |-> "string", v |-> 0]

Titles == {"Widget", "Gadget"}
Prices == {-5, 3}
Quantities == {-2, 3}

\* Entries of a catalogue file: every title with every price, and one title
\* without a price and with a price that is not a number.
CatalogueEntries ==
    [title : Titles, price : {Num(p) : p \in Prices}]
        \cup [title : {"Widget"}, price : {Missing, NotANumber}]

\* Entries of a sales file: the products of the catalogue and one that is in
\* no catalogue, an entry without Quantity and an entry without Product.
SaleEntries ==
    [Product : {"Widget", "Gadget", "Gizmo"}, Quantity : {Num(q) : q \in Quantities}]
        \cup {[Product |-> "Widget", Quantity |-> Missing],
              [Product |-> NoneName, Quantity |-> Num(3)]}

SeqsUpTo(S, n) == UNION {[1..k -> S] : k \in 0..n}

\* What a path names: a readable JSON file with its parsed data, a readable
\* file whose JSON text is null (json.load returns None), a path that does
\* not exist, a file that is not JSON, or a path open() refuses with another
\* OSError (a directory, no permission).
Loaded(data) == [kind |-> "ok", data |-> data]
NullFile == [kind |-> "null", data |-> <<>>]
Failing ==
    {[kind |-> k, data |-> <<>>] : k \in {"missing", "badjson", "unreadable"}}
        \cup {NullFile}

CatalogueFiles == {Loaded(c) : c \in SeqsUpTo(CatalogueEntries, MaxCat)} \cup Failing
SalesFiles == {Loaded(s) : s \in SeqsUpTo(SaleEntries, MaxSales)} \cup Failing

\* The batch runs: several sales files over a small catalogue.
BatchCatalogueFiles ==
    {Loaded(<<[title |-> "Widget", price |-> Num(p)]>>) : p \in Prices} \cup Failing
BatchSaleEntries ==
    {[Product |-> "Widget", Quantity |-> Num(3)],
     [Product |-> "Widget", Quantity |-> Num(-2)],
     [Product |-> "Gizmo", Quantity |-> Num(3)],
     [Product |-> "Widget", Quantity |-> Missing]}
BatchSalesFiles == {Loaded(s) : s \in SeqsUpTo(BatchSaleEntries, MaxSales)} \cup Failing

(***************************** printed lines *******************************)
Line(kind, name, num, rows) == [kind |-> kind, name |-> name, num |-> num, rows |-> rows]

UsageLine == Line("usage", "", 0, <<>>)
LoadErrorLine(n) == Line("load_error", "", n, <<>>)
CatalogueFailedLine == Line("catalogue_failed", "", 0, <<>>)
SalesFailedLine(n) == Line("sales_failed", "", n, <<>>)
LabelLine(n) == Line("label", "", n, <<>>)
NegativePriceLine(name) == Line("negative_price", name, 0, <<>>)
NegativeQuantityLine(name) == Line("negative_quantity", name, 0, <<>>)
NotFoundLine(name) == Line("not_found", name, 0, <<>>)
TableLine(rows) == Line("table", "", 0, rows)
TotalLine(cents) == Line("total", "", cents, <<>>)
TimeLine(reading) == Line("time", "", reading, <<>>)

(**************************** pure functions *******************************)
\* A variant of Abs that leaves the sign as it is.
AbsKeepsSign(x) == x

\* abs()
Abs(x) == IF x < 0 THEN -x ELSE x

\* f"{x:.2f}" of an amount of v eighths of a dollar, in cents: v * 12.5
\* rounded to the nearest cent, an exact half to the even cent.
Fmt2(v) ==
    LET n == (IF v < 0 THEN -v ELSE v) * 25
        q == n \div 2
        c == IF n % 2 = 0 THEN q ELSE IF q % 2 = 0 THEN q ELSE q + 1
    IN IF v < 0 THEN -c ELSE c

\* A variant of IsNegative that takes zero for negative.
IsNotPositive(x) == x <= 0

\* "unit_price < 0", "quantity < 0"
IsNegative(x) == x < 0

\* product.get('price', 0)
GetPrice(product) == IF product.price.t = "missing" THEN Num(0) ELSE product.price

\* A variant of find_product without the break: the last entry with that
\* title is the one found.
RECURSIVE find_product_last(_, _, _)
find_product_last(catalogue, product_name, j) ==
    IF j > Len(catalogue) THEN 0
    ELSE LET later == find_product_last(catalogue, product_name, j + 1)
         IN IF later # 0 THEN later
            ELSE IF catalogue[j].title = product_name THEN j ELSE 0

\* A variant of find_product without the for-else: after a search that finds
\* nothing, the loop variable (the last entry) is taken for the product.
RECURSIVE find_product_loop_variable(_, _, _)
find_product_loop_variable(catalogue, product_name, j) ==
    IF j > Len(catalogue) THEN Len(catalogue)
    ELSE IF catalogue[j].title = product_name THEN j
    ELSE find_product_loop_variable(catalogue, product_name, j + 1)

\* The inner loop "for product in price_catalogue: if title == product_name:
\* ... break": the position of the first entry with that title, 0 if none.
RECURSIVE find_product(_, _, _)
find_product(catalogue, product_name, j) ==
    IF j > Len(catalogue) THEN 0
    ELSE IF catalogue[j].title = product_name THEN j
    ELSE find_product(catalogue, product_name, j + 1)

\* A variant of Accumulate that assigns instead of adding.
AccumulateAssigns(total, unit_price, quantity) == unit_price * quantity

\* total_cost += unit_price * quantity
Accumulate(total, unit_price, quantity) == total + unit_price * quantity

\* The loop of calculate_total_cost from sale k on. exc is TRUE when the
\* loop ends in a TypeError: abs() of a Quantity that is no number, or
\* "unit_price < 0" of a price that is no number. out are the lines printed.
RECURSIVE total_from(_, _, _, _, _)
total_from(catalogue, sales, k, total, out) ==
    IF k > Len(sales) THEN [exc |-> FALSE, total |-> total, out |-> out]
    ELSE
      LET sale == sales[k]
          product_name == sale.Product
          raised == [exc |-> TRUE, total |-> total, out |-> out]
      IN IF sale.Quantity.t # "number" THEN raised
         ELSE
           LET quantity == Abs(sale.Quantity.v)
               j == find_product(catalogue, product_name, 1)
           IN IF j = 0 THEN total_from(catalogue, sales, k + 1, total, out)
              ELSE
                LET unit_price == GetPrice(catalogue[j])
                IN IF unit_price.t # "number" THEN raised
                   ELSE IF IsNegative(unit_price.v)
                   THEN total_from(catalogue, sales, k + 1,
                                   Accumulate(total, Abs(unit_price.v), quantity),
                                   Append(out, NegativePriceLine(product_name)))
                   ELSE total_from(catalogue, sales, k + 1,
                                   Accumulate(total, unit_price.v, quantity), out)

calculate_total_cost(catalogue, sales) == total_from(catalogue, sales, 1, 0, <<>>)

\* load_json: the data that json.load returns, which is None and printed
\* nowhere for a file holding null; None with the line it prints
\* (FileNotFoundError and JSONDecodeError are caught); or an exception it does
\* not catch.
load_json(n, file) ==
    CASE file.kind = "ok" -> [result |-> "data", out |-> <<>>]
      [] file.kind = "null" -> [result |-> "None", out |-> <<>>]
      [] file.kind \in {"missing", "badjson"} -> [result |-> "None", out |-> <<LoadErrorLine(n)>>]
      [] OTHER -> [result |-> "raise", out |-> <<>>]

\* A variant of TooFewArguments that asks for one file only.
TooFewArgumentsOffByOne(files) == Len(files) + 1 < 2

\* len(sys.argv) < 3, sys.argv[0] being the script
TooFewArguments(files) == Len(files) + 1 < 3

\* A variant of AddRow that puts the new row first.
AddRowFirst(rows, row) == <<row>> \o rows

\* table.add_row
AddRow(rows, row) == Append(rows, row)

\* The row main() adds for a matched sale.
TableRow(product_name, quantity, unit_price) ==
    [product |-> product_name, quantity |-> quantity,
     unit_price |-> Fmt2(Abs(unit_price)), subtotal |-> Fmt2(unit_price * quantity)]

(******************************** state ************************************)
sales_record_paths == SubSeq(argv, 2, Len(argv))

InitState ==
    /\ pc = "start"
    /\ price_catalogue = <<>>
    /\ sales_record = <<>>
    /\ path_idx = 1
    /\ total_cost = 0
    /\ table = <<>>
    /\ sale_idx = 1
    /\ console = <<>>
    /\ result_file = <<>>
    /\ file_state = "unopened"
    /\ exception = "none"

\* One sales file at most, over the full sets of entries.
Init ==
    /\ argv \in {<<>>} \cup {<<c>> : c \in CatalogueFiles}
                \cup {<<c, s>> : c \in CatalogueFiles, s \in SalesFiles}
    /\ InitState

\* Up to MaxFiles sales files over the small sets of entries.
InitBatch ==
    /\ argv \in {<<c>> \o ss : c \in BatchCatalogueFiles,
                               ss \in SeqsUpTo(BatchSalesFiles, MaxFiles)}
    /\ InitState

(******************************* actions ***********************************)
\* main, lines 87-95
CheckArguments ==
    /\ pc = "start"
    /\ IF TooFewArguments(argv)
       THEN /\ console' = Append(console, UsageLine)
            /\ pc' = "done"
       ELSE /\ console' = console
            /\ pc' = "load_catalogue"
    /\ UNCHANGED <<argv, price_catalogue, sales_record, path_idx, total_cost,
                   table, sale_idx, result_file, file_state, exception>>

\* main, lines 98-102
LoadCatalogue ==
    /\ pc = "load_catalogue"
    /\ LET r == load_json(0, argv[1])
       IN CASE r.result = "data" ->
                 /\ price_catalogue' = argv[1].data
                 /\ console' = console
                 /\ pc' = "open"
                 /\ exception' = exception
            [] r.result = "None" ->
                 /\ price_catalogue' = price_catalogue
                 /\ console' = console \o r.out \o <<CatalogueFailedLine>>
                 /\ pc' = "done"
                 /\ exception' = exception
            [] OTHER ->
                 /\ price_catalogue' = price_catalogue
                 /\ console' = console
                 /\ pc' = "crashed"
                 /\ exception' = "OSError"
    /\ UNCHANGED <<argv, sales_record, path_idx, total_cost, table, sale_idx,
                   result_file, file_state>>

\* main, line 104: SalesResults.txt is created or truncated
OpenResultFile ==
    /\ pc = "open"
    /\ file_state' = "open"
    /\ result_file' = <<>>
    /\ pc' = "loop"
    /\ UNCHANGED <<argv, price_catalogue, sales_record, path_idx, total_cost,
                   table, sale_idx, console, exception>>

\* main, lines 106-112, and the end of the with block
LoadSalesRecord ==
    /\ pc = "loop"
    /\ IF path_idx > Len(sales_record_paths)
       THEN /\ pc' = "done"
            /\ file_state' = "closed"
            /\ UNCHANGED <<sales_record, path_idx, console, exception>>
       ELSE LET r == load_json(path_idx, sales_record_paths[path_idx])
            IN CASE r.result = "data" ->
                      /\ sales_record' = sales_record_paths[path_idx].data
                      /\ pc' = "section"
                      /\ UNCHANGED <<path_idx, console, file_state, exception>>
                 [] r.result = "None" ->
                      /\ console' = console \o r.out \o <<SalesFailedLine(path_idx)>>
                      /\ path_idx' = path_idx + 1
                      /\ pc' = "loop"
                      /\ UNCHANGED <<sales_record, file_state, exception>>
                 [] OTHER ->
                      /\ pc' = "crashed"
                      /\ exception' = "OSError"
                      /\ file_state' = "closed"
                      /\ UNCHANGED <<sales_record, path_idx, console>>
    /\ UNCHANGED <<argv, price_catalogue, total_cost, table, sale_idx, result_file>>

\* main, lines 115-124: the label, calculate_total_cost, a new table
StartSection ==
    /\ pc = "section"
    /\ LET r == calculate_total_cost(price_catalogue, sales_record)
       IN /\ console' = console \o <<LabelLine(path_idx)>> \o r.out
          /\ result_file' = Append(result_file, LabelLine(path_idx))
          /\ IF r.exc
             THEN /\ pc' = "crashed"
                  /\ exception' = "TypeError"
                  /\ file_state' = "closed"
                  /\ UNCHANGED <<total_cost, table, sale_idx>>
             ELSE /\ total_cost' = r.total
                  /\ table' = <<>>
                  /\ sale_idx' = 1
                  /\ pc' = "rows"
                  /\ UNCHANGED <<file_state, exception>>
    /\ UNCHANGED <<argv, price_catalogue, sales_record, path_idx>>

\* main, lines 125-149: one iteration of "for sale in sales_record".
\* calculate_total_cost has returned by now, so every Quantity is a number and
\* the price of every entry a sale finds is a number or absent: the
\* comparisons of lines 128 and 138 cannot raise here.
AddSaleRow ==
    /\ pc = "rows"
    /\ sale_idx <= Len(sales_record)
    /\ LET sale == sales_record[sale_idx]
           product_name == sale.Product
           negative == IsNegative(sale.Quantity.v)
           quantity == Abs(sale.Quantity.v)
           warned == IF negative THEN <<NegativeQuantityLine(product_name)>> ELSE <<>>
           j == find_product(price_catalogue, product_name, 1)
       IN IF j # 0
          THEN LET price == GetPrice(price_catalogue[j]).v
                   unit_price == IF IsNegative(price) THEN Abs(price) ELSE price
               IN /\ table' = AddRow(table, TableRow(product_name, quantity, unit_price))
                  /\ console' = console \o warned
                  /\ result_file' = result_file
          ELSE /\ table' = table
               /\ console' = console \o warned \o <<NotFoundLine(product_name)>>
               /\ result_file' = Append(result_file, NotFoundLine(product_name))
    /\ sale_idx' = sale_idx + 1
    /\ UNCHANGED <<argv, pc, price_catalogue, sales_record, path_idx, total_cost,
                   file_state, exception>>

\* main, lines 150-164: the table, the total and the execution time. The
\* clock is read once for the console and once more for the file; later
\* says whether it has moved between the two readings.
PrintReport ==
    /\ pc = "rows"
    /\ sale_idx > Len(sales_record)
    /\ \E later \in {0, 1} :
         /\ console' = console \o <<TableLine(table), TotalLine(Fmt2(total_cost)), TimeLine(0)>>
         /\ result_file' = result_file \o
                <<TableLine(table), TotalLine(Fmt2(total_cost)), TimeLine(later)>>
    /\ path_idx' = path_idx + 1
    /\ pc' = "loop"
    /\ UNCHANGED <<argv, price_catalogue, sales_record, total_cost, table, sale_idx,
                   file_state, exception>>

Next ==
    \/ CheckArguments
    \/ LoadCatalogue
    \/ OpenResultFile
    \/ LoadSalesRecord
    \/ StartSection
    \/ AddSaleRow
    \/ PrintReport

Spec == Init /\ [][Next]_vars

SpecBatch == InitBatch /\ [][Next]_vars

(************************ terms the claims are in **************************)
Magnitude(x) == IF x < 0 THEN -x ELSE x

RECURSIVE SeqSum(_)
SeqSum(s) == IF s = <<>> THEN 0 ELSE Head(s) + SeqSum(Tail(s))

Last(s) == s[Len(s)]

CountKind(lines, kind) == Cardinality({n \in 1..Len(lines) : lines[n].kind = kind})

HasTitle(catalogue, name) == \E j \in 1..Len(catalogue) : catalogue[j].title = name

\* The entry with that title that no entry with that title precedes.
FirstEntry(catalogue, name) ==
    catalogue[CHOOSE j \in 1..Len(catalogue) :
                 /\ catalogue[j].title = name
                 /\ \A i \in 1..(j - 1) : catalogue[i].title # name]

\* The price of an entry as a number; an entry without price costs 0.
PriceValue(entry) == IF entry.price.t = "number" THEN entry.price.v ELSE 0

Matched(sale) == HasTitle(price_catalogue, sale.Product)

MatchedSales == SelectSeq(sales_record, Matched)

\* Unit price times quantity of a matched sale, both without their sign.
LineSubtotal(sale) ==
    Magnitude(PriceValue(FirstEntry(price_catalogue, sale.Product)))
        * Magnitude(sale.Quantity.v)

\* calculate_total_cost has returned the total of sales_record.
TotalComputed == pc = "rows"

\* The loop over the sales of the file has ended.
RowsDone == pc = "rows" /\ sale_idx > Len(sales_record)

\* The lines a step adds to the console.
Printed(before, after) == SubSeq(after, Len(before) + 1, Len(after))

(********************************* C1 **************************************)
NoNegativeValues ==
    /\ \A j \in 1..Len(price_catalogue) :
         price_catalogue[j].price.t # "string" /\ PriceValue(price_catalogue[j]) >= 0
    /\ \A k \in 1..Len(sales_record) :
         sales_record[k].Quantity.t = "number" /\ sales_record[k].Quantity.v >= 0

AllProductsPresent == \A k \in 1..Len(sales_record) : Matched(sales_record[k])

\* C1: with no negative price, no negative Quantity and every product in the
\* catalogue, calculate_total_cost returns the sum over the sale entries of
\* the price of the product times the Quantity of the sale.
C1_TotalIsSumOfPriceTimesQuantity ==
    (TotalComputed /\ NoNegativeValues /\ AllProductsPresent) =>
        total_cost = SeqSum([k \in 1..Len(sales_record) |->
                        PriceValue(FirstEntry(price_catalogue, sales_record[k].Product))
                            * sales_record[k].Quantity.v])

\* Two sales of different products, both priced, have been totalled.
C1_Witness ==
    /\ TotalComputed /\ NoNegativeValues /\ AllProductsPresent
    /\ Len(sales_record) = 2
    /\ sales_record[1].Product # sales_record[2].Product
    /\ total_cost = 18

(********************************* C2 **************************************)
NegateQuantities(sales) == [k \in 1..Len(sales) |-> [sales[k] EXCEPT !.Quantity.v = -@]]

NegatePrices(catalogue) == [j \in 1..Len(catalogue) |-> [catalogue[j] EXCEPT !.price.v = -@]]

\* C2: the total of (C, S) is the total of (C, S with every Quantity negated)
\* and the total of (C with every price negated, S), and is never negative.
C2_SignInvariance ==
    TotalComputed =>
        /\ calculate_total_cost(price_catalogue, NegateQuantities(sales_record))
             = [exc |-> FALSE, total |-> total_cost,
                out |-> calculate_total_cost(price_catalogue, sales_record).out]
        /\ LET negated == calculate_total_cost(NegatePrices(price_catalogue), sales_record)
           IN ~negated.exc /\ negated.total = total_cost
        /\ total_cost >= 0

\* Scenario B: a negative price and a negative quantity give a positive total.
C2_Witness ==
    /\ TotalComputed
    /\ price_catalogue = <<[title |-> "Gadget", price |-> Num(-5)]>>
    /\ sales_record = <<[Product |-> "Gadget", Quantity |-> Num(-2)]>>
    /\ total_cost = 10

(********************************* C3 **************************************)
C3_Excluded ==
    TotalComputed =>
        /\ total_cost = calculate_total_cost(price_catalogue, MatchedSales).total
        /\ \A n \in 1..Len(table) : HasTitle(price_catalogue, table[n].product)

C3_Step ==
    (pc = "rows" /\ sale_idx <= Len(sales_record) /\ ~Matched(sales_record[sale_idx])) =>
        /\ table' = table
        /\ total_cost' = total_cost
        /\ CountKind(console', "not_found") = CountKind(console, "not_found") + 1
        /\ Last(console') = NotFoundLine(sales_record[sale_idx].Product)
        /\ result_file' = Append(result_file, NotFoundLine(sales_record[sale_idx].Product))
        /\ sale_idx' = sale_idx + 1
        /\ pc' = "rows"
        /\ exception' = "none"

\* C3: a sale whose Product is the title of no catalogue entry adds 0 to the
\* total and no row to the table, produces exactly one not-found warning (on
\* the console and in the file), and the loop goes on to the next sale.
C3_UnmatchedProductExcluded == [] C3_Excluded /\ [][C3_Step]_vars

\* An unmatched sale followed by a matched one, both processed.
C3_Witness ==
    /\ RowsDone
    /\ Len(sales_record) = 2
    /\ ~Matched(sales_record[1])
    /\ Matched(sales_record[2])
    /\ Len(table) = 1
    /\ CountKind(console, "not_found") = 1
    /\ CountKind(result_file, "not_found") = 1
    /\ total_cost > 0

(********************************* C8 **************************************)
\* The catalogue without the entries whose title an earlier entry has.
RECURSIVE FirstOfEachTitle(_)
FirstOfEachTitle(catalogue) ==
    IF catalogue = <<>> THEN <<>>
    ELSE LET front == SubSeq(catalogue, 1, Len(catalogue) - 1)
         IN IF HasTitle(front, Last(catalogue).title)
            THEN FirstOfEachTitle(front)
            ELSE Append(FirstOfEachTitle(front), Last(catalogue))

\* C8: the total and the rows of the table use the price of the first entry
\* with the sale's title; no later entry with that title changes either.
C8_FirstMatchByTitle ==
    TotalComputed =>
        /\ total_cost =
             calculate_total_cost(FirstOfEachTitle(price_catalogue), sales_record).total
        /\ \A n \in 1..Len(table) :
             LET first == Magnitude(PriceValue(FirstEntry(price_catalogue, table[n].product)))
             IN /\ table[n].unit_price = Fmt2(first)
                /\ table[n].subtotal = Fmt2(first * table[n].quantity)

\* Two entries with one title and different prices, and a sale of that title
\* in the table.
C8_Witness ==
    /\ RowsDone
    /\ Len(price_catalogue) = 2
    /\ price_catalogue[1].title = price_catalogue[2].title
    /\ Magnitude(PriceValue(price_catalogue[1])) # Magnitude(PriceValue(price_catalogue[2]))
    /\ Len(table) >= 1
    /\ table[1].product = price_catalogue[1].title
    /\ total_cost > 0

(********************************* C9 **************************************)
\* The report of the file has been printed and no later line follows it.
ReportPrinted == pc \in {"loop", "done"} /\ console # <<>> /\ Last(console).kind = "time"

\* C9: the table holds one row per matched sale entry, in the order of the
\* sale entries, equal products in rows of their own, and the total that the
\* Total Cost line shows is the sum of the subtotals (unit price times
\* quantity, before they are formatted) of those rows.
C9_ReportAgreesWithAggregation ==
    (RowsDone \/ ReportPrinted) =>
        /\ Len(table) = Len(MatchedSales)
        /\ \A n \in 1..Len(MatchedSales) :
             /\ table[n].product = MatchedSales[n].Product
             /\ table[n].quantity = Magnitude(MatchedSales[n].Quantity.v)
             /\ table[n].subtotal = Fmt2(LineSubtotal(MatchedSales[n]))
        /\ total_cost = SeqSum([n \in 1..Len(MatchedSales) |-> LineSubtotal(MatchedSales[n])])
        /\ ReportPrinted =>
             /\ console[Len(console) - 2] = TableLine(table)
             /\ console[Len(console) - 1] = TotalLine(Fmt2(total_cost))
             /\ result_file[Len(result_file) - 2] = TableLine(table)
             /\ result_file[Len(result_file) - 1] = TotalLine(Fmt2(total_cost))

\* A printed report with two rows of one product and different quantities.
C9_Witness ==
    /\ ReportPrinted
    /\ Len(table) = 2
    /\ table[1].product = table[2].product
    /\ table[1].quantity # table[2].quantity
    /\ total_cost > 0

(********************************* C10 *************************************)
NegativePriced(sale) ==
    Matched(sale) /\ PriceValue(FirstEntry(price_catalogue, sale.Product)) < 0

IsNegativePriceLine(line) == line.kind = "negative_price"

C10_Section ==
    (pc = "section" /\ pc' = "rows") =>
        LET priced == SelectSeq(sales_record, NegativePriced)
        IN /\ SelectSeq(Printed(console, console'), IsNegativePriceLine)
                = [n \in 1..Len(priced) |-> NegativePriceLine(priced[n].Product)]
           /\ CountKind(console', "negative_quantity") = CountKind(console, "negative_quantity")
           /\ total_cost' = SeqSum([n \in 1..Len(MatchedSales) |-> LineSubtotal(MatchedSales[n])])

C10_Row ==
    (pc = "rows" /\ sale_idx <= Len(sales_record) /\ sale_idx' = sale_idx + 1) =>
        LET sale == sales_record[sale_idx]
            printed == Printed(console, console')
        IN /\ CountKind(printed, "negative_price") = 0
           /\ IF sale.Quantity.v < 0
              THEN /\ CountKind(printed, "negative_quantity") = 1
                   /\ printed[1] = NegativeQuantityLine(sale.Product)
              ELSE CountKind(printed, "negative_quantity") = 0
           /\ Matched(sale) =>
                /\ Len(table') = Len(table) + 1
                /\ Last(table').quantity = Magnitude(sale.Quantity.v)
                /\ Last(table').subtotal = Fmt2(LineSubtotal(sale))

\* C10: each sale entry with a negative Quantity produces exactly one
\* negative-quantity warning naming its product, each sale entry whose
\* catalogue entry has a negative price produces exactly one negative-price
\* warning, and the subtotal and the total use the absolute values.
C10_OneWarningPerNegativeValue == [][C10_Section /\ C10_Row]_vars

\* Scenario B, its two warnings printed and its row added.
C10_Witness ==
    /\ RowsDone
    /\ console = <<LabelLine(1), NegativePriceLine("Gadget"), NegativeQuantityLine("Gadget")>>
    /\ total_cost = 10
    /\ table = <<[product |-> "Gadget", quantity |-> 2, unit_price |-> 62, subtotal |-> 125]>>

(********************************* C5 **************************************)
FewerThanTwoFiles == Len(argv) < 2

\* The files for which load_json returns None.
ReturnsNone == {"missing", "badjson", "null"}

CatalogueLoadFailed == Len(argv) >= 2 /\ argv[1].kind \in ReturnsNone

\* C5: with fewer than two file arguments, or with a catalogue that load_json
\* cannot load, main prints its message and returns; no sales file is loaded,
\* no total computed, no report section printed, SalesResults.txt not opened.
C5_FatalConditionsDoNoWork ==
    (FewerThanTwoFiles \/ CatalogueLoadFailed) =>
        /\ pc \in {"start", "load_catalogue", "done"}
        /\ exception = "none"
        /\ file_state = "unopened" /\ result_file = <<>>
        /\ price_catalogue = <<>> /\ sales_record = <<>> /\ path_idx = 1
        /\ total_cost = 0 /\ table = <<>>
        /\ FewerThanTwoFiles => pc # "load_catalogue"
        /\ console = IF pc # "done" THEN <<>>
                     ELSE IF FewerThanTwoFiles THEN <<UsageLine>>
                     ELSE IF argv[1].kind = "null" THEN <<CatalogueFailedLine>>
                     ELSE <<LoadErrorLine(0), CatalogueFailedLine>>

\* The run has returned after the catalogue failed to load, sales files given.
C5_Witness ==
    /\ pc = "done"
    /\ CatalogueLoadFailed
    /\ argv[1].kind = "missing"
    /\ argv[2].kind = "ok" /\ argv[2].data # <<>>
    /\ console = <<LoadErrorLine(0), CatalogueFailedLine>>

(********************************* C7 **************************************)
\* C7: no exception propagates past main, whatever the files hold.
C7_NoUncaughtException == exception = "none" /\ pc # "crashed"

(********************************* C6 **************************************)
\* The lines with the clock reading left out of the execution-time lines.
WithoutReadings(lines) ==
    [n \in 1..Len(lines) |-> IF lines[n].kind = "time" THEN TimeLine(0) ELSE lines[n]]

\* C6: once the catalogue is loaded, SalesResults.txt holds the lines of the
\* console, line for line and in the same order.
C6_FileMirrorsConsole ==
    file_state # "unopened" => WithoutReadings(result_file) = WithoutReadings(console)

(********************************* C4 **************************************)
\* SalesResults.txt holds the label of sales file j and, after it and its
\* not-found warnings, its table and its total.
HasSection(j) ==
    \E a \in 1..Len(result_file) :
        /\ result_file[a] = LabelLine(j)
        /\ \E b \in (a + 1)..(Len(result_file) - 1) :
             /\ result_file[b].kind = "table"
             /\ result_file[b + 1].kind = "total"
             /\ \A m \in (a + 1)..(b - 1) : result_file[m].kind = "not_found"

HasLabel(j) == \E a \in 1..Len(result_file) : result_file[a] = LabelLine(j)

\* C4: when the run has ended, every sales file that follows one that
\* load_json failed to load has been skipped if it fails to load too, and has
\* its label, table and total in SalesResults.txt if it loads.
C4_FailedLoadIsRecoverable ==
    (pc \in {"done", "crashed"} /\ Len(argv) >= 2 /\ argv[1].kind = "ok") =>
        \A j \in 1..Len(sales_record_paths) :
            (\E i \in 1..(j - 1) : sales_record_paths[i].kind \in ReturnsNone) =>
                IF sales_record_paths[j].kind = "ok" THEN HasSection(j) ELSE ~HasLabel(j)

====
